---- MODULE Spec2Model ----
(***************************************************************************)
(* Model of consumers/csv_consumer_vega.py: a Kafka consumer that reads    *)
(* JSON heart-rate messages, raises threshold alerts on each reading and   *)
(* detects stalls over a rolling window (a deque with maxlen).             *)
(*                                                                         *)
(* Heart rates and thresholds are whole BPM values (integers).  A raw      *)
(* message is the JSON text abstracted to its syntax class and, for an     *)
(* object, the JSON values of the two keys the code reads.                 *)
(***************************************************************************)
EXTENDS Integers, Sequences, FiniteSets, TLC

VARIABLES
    env,             \* os.environ after load_dotenv(): the HEART_* settings
    window_size,     \* main's local window_size (line 205)
    rolling_window,  \* main's deque(maxlen=window_size) (line 209)
    consumer,        \* the Kafka consumer: "open" or "closed"
    pc,              \* position of main: "poll", "body", "finally", "done"
    message,         \* message_str of the current loop iteration
    nDelivered,      \* messages the consumer iterator has returned
    nProcessed,      \* calls of process_message made
    accepted,        \* history: heart rates of the well-formed readings pushed
    alertEv,         \* warning logged by the last call: "NONE", "HIGH", "LOW"
    stallEv,         \* whether the last call logged STALL DETECTED
    errLog,          \* error logged by the last call: "none", "invalid",
                     \*   "decode", "exception"
    endCause,        \* why the loop ended: "none", "exhausted", "feed_error",
                     \*   "interrupt"
    closeCount,      \* number of consumer.close() calls made
    dotenv,          \* the external settings source (.env file) as it is now
    stallCount       \* number of STALL DETECTED events logged so far

vars == <<env, window_size, rolling_window, consumer, pc, message, nDelivered,
          nProcessed, accepted, alertEv, stallEv, errLog, endCause, closeCount,
          dotenv, stallCount>>

(***************************************************************************)
(* Bounds of the model.                                                    *)
(***************************************************************************)
MaxWindow == 3
MaxHR == 3
MaxMsgs == 4
ScenarioLen == 6

(***************************************************************************)
(* Defaults of the getters (second argument of os.getenv).                 *)
(***************************************************************************)
DefaultWindowSize == 5
DefaultStallThreshold == 5
DefaultThresholdHigh == 120
DefaultThresholdLow == 40

(***************************************************************************)
(* Environment getters.                                                    *)
(***************************************************************************)
\* the settings source is read again at every call
getenv_reload(key, default) == IF key \in DOMAIN dotenv THEN dotenv[key] ELSE default

\* os.getenv: reads os.environ, which load_dotenv() filled once at import
getenv(key, default) == IF key \in DOMAIN env THEN env[key] ELSE default

get_stall_threshold == getenv("HEART_STALL_THRESHOLD_BPM", DefaultStallThreshold)

get_rolling_window_size == getenv("HEART_ROLLING_WINDOW_SIZE", DefaultWindowSize)

get_heart_rate_threshold_high == getenv("HEART_RATE_THRESHOLD_HIGH", DefaultThresholdHigh)

get_heart_rate_threshold_low == getenv("HEART_RATE_THRESHOLD_LOW", DefaultThresholdLow)

(***************************************************************************)
(* JSON text and the Python values json.loads makes of it.                 *)
(***************************************************************************)
JNull == [t |-> "null", v |-> 0]
JString == [t |-> "string", v |-> 0]
JNumber(x) == [t |-> "number", v |-> x]

None == [t |-> "None", v |-> 0]
PyStr == [t |-> "str", v |-> 0]
PyNum(x) == [t |-> "num", v |-> x]

Keys == {"heart_rate", "timestamp"}

HeartRateJson(vals) == {JNull, JString} \cup {JNumber(x) : x \in vals}

TimestampJson == {JNull, JString}

Payloads(vals) ==
    {d \in UNION {[S -> HeartRateJson(vals)] : S \in SUBSET Keys} :
        "timestamp" \in DOMAIN d => d["timestamp"] \in TimestampJson}

NoFields == [k \in {} |-> JNull]

RawMessages(vals) ==
    {[syntax |-> "garbage", fields |-> NoFields],
     [syntax |-> "array", fields |-> NoFields]}
    \cup {[syntax |-> "object", fields |-> d] : d \in Payloads(vals)}

Reading(x) ==
    [syntax |-> "object",
     fields |-> [k \in Keys |-> IF k = "heart_rate" THEN JNumber(x) ELSE JString]]

\* JSON value -> Python value
PyValue(j) ==
    IF j.t = "null" THEN None
    ELSE IF j.t = "string" THEN PyStr
    ELSE PyNum(j.v)

\* json.loads(message): raises JSONDecodeError on text that is not JSON,
\* otherwise gives a list or a dict of Python values
json_loads(raw) ==
    IF raw.syntax = "garbage" THEN [raised |-> TRUE, type |-> "none", items |-> NoFields]
    ELSE IF raw.syntax = "array" THEN [raised |-> FALSE, type |-> "list", items |-> NoFields]
    ELSE [raised |-> FALSE, type |-> "dict",
          items |-> [k \in DOMAIN raw.fields |-> PyValue(raw.fields[k])]]

\* dict.get(key): None when the key is absent
dict_get(d, key) == IF key \in DOMAIN d THEN d[key] ELSE None

(***************************************************************************)
(* deque(maxlen=n).append(x)                                               *)
(***************************************************************************)
\* a plain list: nothing is evicted
deque_append_unbounded(dq, maxlen, x) == Append(dq, x)

\* eviction at the wrong end: the newest element is dropped
deque_append_lifo(dq, maxlen, x) ==
    IF maxlen = 0 THEN dq
    ELSE IF Len(dq) = maxlen THEN Append(SubSeq(dq, 1, Len(dq) - 1), x)
    ELSE Append(dq, x)

deque_append(dq, maxlen, x) ==
    IF maxlen = 0 THEN dq
    ELSE IF Len(dq) = maxlen THEN Append(Tail(dq), x)
    ELSE Append(dq, x)

RECURSIVE SeqMax(_)
SeqMax(s) ==
    IF Len(s) = 1 THEN s[1]
    ELSE LET m == SeqMax(Tail(s)) IN IF s[1] > m THEN s[1] ELSE m

RECURSIVE SeqMin(_)
SeqMin(s) ==
    IF Len(s) = 1 THEN s[1]
    ELSE LET m == SeqMin(Tail(s)) IN IF s[1] < m THEN s[1] ELSE m

(***************************************************************************)
(* detect_stall(rolling_window_deque)                                      *)
(***************************************************************************)
\* json.loads gives an integer literal of any length as a Python int.  HugeInt
\* stands for one beyond the range of a float (such as 1 followed by 400
\* zeros); the readings below it stand for floats such as 72.0
HugeInt == 1000000

\* line 111 on a full deque: the subtraction of a float from an int beyond
\* the float range raises OverflowError
detect_stall_raises(rolling_window_deque) ==
    /\ Len(rolling_window_deque) >= get_rolling_window_size
    /\ SeqMax(rolling_window_deque) >= HugeInt
    /\ SeqMin(rolling_window_deque) < HugeInt

\* strict comparison with the threshold
detect_stall_strict(rolling_window_deque) ==
    LET WINDOW_SIZE == get_rolling_window_size
    IN  IF Len(rolling_window_deque) < WINDOW_SIZE THEN FALSE
        ELSE LET hr_range == SeqMax(rolling_window_deque) - SeqMin(rolling_window_deque)
             IN  hr_range < get_stall_threshold

\* the range is tested as soon as the deque holds a reading
detect_stall_no_warmup(rolling_window_deque) ==
    IF Len(rolling_window_deque) = 0 THEN FALSE
    ELSE LET hr_range == SeqMax(rolling_window_deque) - SeqMin(rolling_window_deque)
         IN  hr_range <= get_stall_threshold

detect_stall(rolling_window_deque) ==
    LET WINDOW_SIZE == get_rolling_window_size
    IN  IF Len(rolling_window_deque) < WINDOW_SIZE THEN FALSE
        ELSE LET hr_range == SeqMax(rolling_window_deque) - SeqMin(rolling_window_deque)
             IN  hr_range <= get_stall_threshold

(***************************************************************************)
(* alert_on_heart_rate_anomaly(heart_rate): the warning it logs            *)
(***************************************************************************)
\* thresholds taken as inclusive
alert_inclusive(heart_rate) ==
    LET high_threshold == get_heart_rate_threshold_high
        low_threshold == get_heart_rate_threshold_low
    IN  IF heart_rate >= high_threshold THEN "HIGH"
        ELSE IF heart_rate <= low_threshold THEN "LOW"
        ELSE "NONE"

\* the low check made first
alert_low_first(heart_rate) ==
    LET high_threshold == get_heart_rate_threshold_high
        low_threshold == get_heart_rate_threshold_low
    IN  IF heart_rate < low_threshold THEN "LOW"
        ELSE IF heart_rate > high_threshold THEN "HIGH"
        ELSE "NONE"

alert_on_heart_rate_anomaly(heart_rate) ==
    LET high_threshold == get_heart_rate_threshold_high
        low_threshold == get_heart_rate_threshold_low
    IN  IF heart_rate > high_threshold THEN "HIGH"
        ELSE IF heart_rate < low_threshold THEN "LOW"
        ELSE "NONE"

(***************************************************************************)
(* process_message(message, rolling_window, window_size).                  *)
(* The result is the deque after the call, what the call logged, and       *)
(* whether an exception left the call.  maxlen is the deque's capacity.    *)
(***************************************************************************)
Outcome(w, a, s, e, x) ==
    [window |-> w, alert |-> a, stall |-> s, err |-> e, exc |-> x]

\* only heart_rate is required
invalid_format_hr_only(heart_rate, timestamp) == heart_rate = None

\* line 165
invalid_format(heart_rate, timestamp) == heart_rate = None \/ timestamp = None

\* the stall is evaluated before the reading is appended
try_block_stall_first(msg, dq, maxlen) ==
    LET data == json_loads(msg)
    IN  IF data.raised THEN Outcome(dq, "NONE", FALSE, "none", "JSONDecodeError")
        ELSE IF data.type # "dict" THEN Outcome(dq, "NONE", FALSE, "none", "AttributeError")
        ELSE LET heart_rate == dict_get(data.items, "heart_rate")
                 timestamp == dict_get(data.items, "timestamp")
             IN  IF invalid_format(heart_rate, timestamp)
                 THEN Outcome(dq, "NONE", FALSE, "invalid", "none")
                 ELSE IF heart_rate.t # "num"
                 THEN Outcome(dq, "NONE", FALSE, "none", "TypeError")
                 ELSE LET alert == alert_on_heart_rate_anomaly(heart_rate.v)
                          appended == deque_append(dq, maxlen, heart_rate.v)
                      IN  IF Len(dq) > 0 /\ detect_stall_raises(dq)
                          THEN Outcome(dq, alert, FALSE, "none", "OverflowError")
                          ELSE Outcome(appended, alert, Len(dq) > 0 /\ detect_stall(dq),
                                       "none", "none")

\* a reading that raises an alert is not processed further
try_block_alert_returns(msg, dq, maxlen) ==
    LET data == json_loads(msg)
    IN  IF data.raised THEN Outcome(dq, "NONE", FALSE, "none", "JSONDecodeError")
        ELSE IF data.type # "dict" THEN Outcome(dq, "NONE", FALSE, "none", "AttributeError")
        ELSE LET heart_rate == dict_get(data.items, "heart_rate")
                 timestamp == dict_get(data.items, "timestamp")
             IN  IF invalid_format(heart_rate, timestamp)
                 THEN Outcome(dq, "NONE", FALSE, "invalid", "none")
                 ELSE IF heart_rate.t # "num"
                 THEN Outcome(dq, "NONE", FALSE, "none", "TypeError")
                 ELSE LET alert == alert_on_heart_rate_anomaly(heart_rate.v)
                          appended == deque_append(dq, maxlen, heart_rate.v)
                      IN  IF alert # "NONE"
                          THEN Outcome(dq, alert, FALSE, "none", "none")
                          ELSE IF detect_stall_raises(appended)
                          THEN Outcome(appended, alert, FALSE, "none", "OverflowError")
                          ELSE Outcome(appended, alert, detect_stall(appended),
                                       "none", "none")

\* the try block (lines 155-179); exc is the exception it ends with
try_block(msg, dq, maxlen) ==
    LET data == json_loads(msg)
    IN  IF data.raised THEN Outcome(dq, "NONE", FALSE, "none", "JSONDecodeError")
        ELSE IF data.type # "dict" THEN Outcome(dq, "NONE", FALSE, "none", "AttributeError")
        ELSE LET heart_rate == dict_get(data.items, "heart_rate")
                 timestamp == dict_get(data.items, "timestamp")
             IN  IF invalid_format(heart_rate, timestamp)
                 THEN Outcome(dq, "NONE", FALSE, "invalid", "none")
                 ELSE IF heart_rate.t # "num"
                 THEN Outcome(dq, "NONE", FALSE, "none", "TypeError")
                 ELSE LET alert == alert_on_heart_rate_anomaly(heart_rate.v)
                          appended == deque_append(dq, maxlen, heart_rate.v)
                      IN  IF detect_stall_raises(appended)
                          THEN Outcome(appended, alert, FALSE, "none", "OverflowError")
                          ELSE Outcome(appended, alert, detect_stall(appended),
                                       "none", "none")

\* only the JSONDecodeError clause
except_clauses_narrow(exc) ==
    IF exc = "JSONDecodeError" THEN "decode" ELSE "uncaught"

\* the except clauses (lines 181-184): the error each exception is logged as,
\* "uncaught" when no clause matches
except_clauses(exc) ==
    IF exc = "JSONDecodeError" THEN "decode"
    ELSE IF exc \in {"AttributeError", "TypeError", "OverflowError"} THEN "exception"
    ELSE "uncaught"

process_message(msg, dq, maxlen) ==
    LET r == try_block(msg, dq, maxlen)
    IN  IF r.exc = "none" THEN r
        ELSE IF except_clauses(r.exc) = "uncaught" THEN r
        ELSE Outcome(r.window, r.alert, r.stall, except_clauses(r.exc), "none")

\* Whether the call on msg gets as far as line 170 without returning or raising
ReachesAlert(msg) ==
    LET data == json_loads(msg)
    IN  /\ ~data.raised
        /\ data.type = "dict"
        /\ ~invalid_format(dict_get(data.items, "heart_rate"),
                           dict_get(data.items, "timestamp"))
        /\ dict_get(data.items, "heart_rate").t = "num"

(***************************************************************************)
(* History bookkeeping: a raw message that is a well-formed reading.       *)
(***************************************************************************)
IsReading(raw) ==
    /\ raw.syntax = "object"
    /\ Keys \subseteq DOMAIN raw.fields
    /\ raw.fields["heart_rate"].t = "number"
    /\ raw.fields["timestamp"].t = "string"

ReadingValue(raw) == raw.fields["heart_rate"].v

(***************************************************************************)
(* Initial states: main has read its settings, made the deque and created  *)
(* the consumer (lines 200-215).                                           *)
(***************************************************************************)
HRValues == 0..MaxHR

\* <<high, low>>; the last pair is a misconfiguration (low > high)
AlertThresholds == {<<2, 1>>, <<1, 3>>}

StallThresholds == {0, 1}

Environments ==
    {[HEART_ROLLING_WINDOW_SIZE |-> n, HEART_STALL_THRESHOLD_BPM |-> s,
      HEART_RATE_THRESHOLD_HIGH |-> hl[1], HEART_RATE_THRESHOLD_LOW |-> hl[2]] :
        n \in 1..MaxWindow, s \in StallThresholds, hl \in AlertThresholds}

NoMessage == [syntax |-> "none", fields |-> NoFields]

Started(e) ==
    /\ env = e
    /\ dotenv = e
    /\ window_size = getenv("HEART_ROLLING_WINDOW_SIZE", DefaultWindowSize)
    /\ rolling_window = <<>>
    /\ consumer = "open"
    /\ pc = "poll"
    /\ message = NoMessage
    /\ nDelivered = 0
    /\ nProcessed = 0
    /\ accepted = <<>>
    /\ alertEv = "NONE"
    /\ stallEv = FALSE
    /\ errLog = "none"
    /\ endCause = "none"
    /\ closeCount = 0
    /\ stallCount = 0

Init == \E e \in Environments : Started(e)

\* No HEART_* variable is set: every getter gives its default
InitScenario == Started([k \in {} |-> 0])

(***************************************************************************)
(* The consume loop of main (lines 216-227).                               *)
(***************************************************************************)
\* for message in consumer: the iterator returns the next message
Deliver(m, cap) ==
    /\ pc = "poll"
    /\ nDelivered < cap
    /\ message' = m
    /\ nDelivered' = nDelivered + 1
    /\ pc' = "body"
    /\ UNCHANGED <<env, dotenv, stallCount, window_size, rolling_window, consumer, nProcessed, accepted,
                   alertEv, stallEv, errLog, endCause, closeCount>>

\* a stall is logged only when the previous call logged none
ProcessMessage_edge ==
    /\ pc = "body"
    /\ LET r == process_message(message, rolling_window, window_size)
       IN  /\ rolling_window' = r.window
           /\ alertEv' = r.alert
           /\ stallEv' = (r.stall /\ ~stallEv)
           /\ stallCount' = IF r.stall /\ ~stallEv THEN stallCount + 1 ELSE stallCount
           /\ errLog' = r.err
           /\ pc' = IF r.exc = "none" THEN "poll" ELSE "finally"
           /\ endCause' = IF r.exc = "none" THEN endCause ELSE "feed_error"
    /\ accepted' = IF IsReading(message) THEN Append(accepted, ReadingValue(message))
                   ELSE accepted
    /\ nProcessed' = nProcessed + 1
    /\ UNCHANGED <<env, dotenv, window_size, consumer, message, nDelivered, closeCount>>

\* lines 218-220: the call of process_message runs to its end.  An exception
\* that leaves the call is caught by except Exception of main (line 223)
ProcessMessage ==
    /\ pc = "body"
    /\ LET r == process_message(message, rolling_window, window_size)
       IN  /\ rolling_window' = r.window
           /\ alertEv' = r.alert
           /\ stallEv' = r.stall
           /\ stallCount' = IF r.stall THEN stallCount + 1 ELSE stallCount
           /\ errLog' = r.err
           /\ pc' = IF r.exc = "none" THEN "poll" ELSE "finally"
           /\ endCause' = IF r.exc = "none" THEN endCause ELSE "feed_error"
    /\ accepted' = IF IsReading(message) THEN Append(accepted, ReadingValue(message))
                   ELSE accepted
    /\ nProcessed' = nProcessed + 1
    /\ UNCHANGED <<env, dotenv, window_size, consumer, message, nDelivered, closeCount>>

\* the iterator ends (StopIteration): the for loop ends and finally runs
FeedExhausted ==
    /\ pc = "poll"
    /\ endCause' = "exhausted"
    /\ pc' = "finally"
    /\ UNCHANGED <<env, dotenv, stallCount, window_size, rolling_window, consumer, message, nDelivered,
                   nProcessed, accepted, alertEv, stallEv, errLog, closeCount>>

\* the iterator raises: except Exception logs the error (lines 223-224)
FeedError ==
    /\ pc = "poll"
    /\ endCause' = "feed_error"
    /\ pc' = "finally"
    /\ UNCHANGED <<env, dotenv, stallCount, window_size, rolling_window, consumer, message, nDelivered,
                   nProcessed, accepted, alertEv, stallEv, errLog, closeCount>>

\* the interrupt handler leaves main without closing the consumer
InterruptPolling_no_finally ==
    /\ pc = "poll"
    /\ endCause' = "interrupt"
    /\ pc' = "done"
    /\ UNCHANGED <<env, dotenv, stallCount, window_size, rolling_window, consumer, message, nDelivered,
                   nProcessed, accepted, alertEv, stallEv, errLog, closeCount>>

\* KeyboardInterrupt while the iterator waits for a message (lines 221-222)
InterruptPolling ==
    /\ pc = "poll"
    /\ endCause' = "interrupt"
    /\ pc' = "finally"
    /\ UNCHANGED <<env, dotenv, stallCount, window_size, rolling_window, consumer, message, nDelivered,
                   nProcessed, accepted, alertEv, stallEv, errLog, closeCount>>

\* KeyboardInterrupt in the loop body.  except Exception (line 183) does not
\* catch it, so it leaves process_message where it arrives:
\*   cut = 0: at lines 218-219, before the call
\*   cut = 1: in the call, before alert_on_heart_rate_anomaly has logged
\*   cut = 2: after line 170, before the append of line 173
\*   cut = 3: after line 173, before the stall is logged
InterruptBody(cut) ==
    /\ pc = "body"
    /\ cut >= 2 => ReachesAlert(message)
    /\ nProcessed' = IF cut >= 1 THEN nProcessed + 1 ELSE nProcessed
    /\ alertEv' = IF cut >= 2 THEN alert_on_heart_rate_anomaly(ReadingValue(message))
                  ELSE IF cut = 1 THEN "NONE" ELSE alertEv
    /\ rolling_window' = IF cut >= 3
                         THEN deque_append(rolling_window, window_size, ReadingValue(message))
                         ELSE rolling_window
    /\ accepted' = IF cut >= 3 THEN Append(accepted, ReadingValue(message)) ELSE accepted
    /\ stallEv' = IF cut >= 1 THEN FALSE ELSE stallEv
    /\ errLog' = IF cut >= 1 THEN "none" ELSE errLog
    /\ endCause' = "interrupt"
    /\ pc' = "finally"
    /\ UNCHANGED <<env, dotenv, stallCount, window_size, consumer, message, nDelivered, closeCount>>

\* finally: consumer.close() (lines 225-227)
Close ==
    /\ pc = "finally"
    /\ consumer' = "closed"
    /\ closeCount' = closeCount + 1
    /\ pc' = "done"
    /\ UNCHANGED <<env, dotenv, stallCount, window_size, rolling_window, message, nDelivered, nProcessed,
                   accepted, alertEv, stallEv, errLog, endCause>>

Next ==
    \/ \E m \in RawMessages(HRValues) : Deliver(m, MaxMsgs)
    \/ ProcessMessage
    \/ FeedExhausted
    \/ FeedError
    \/ InterruptPolling
    \/ \E cut \in 0..3 : InterruptBody(cut)
    \/ Close

Spec == Init /\ [][Next]_vars

\* The scenario feed: readings of 70, 71, 72 and 130 BPM and text that is
\* not JSON, consumed under the default settings
ScenarioMessages ==
    {Reading(x) : x \in {70, 71, 72, 130}}
    \cup {[syntax |-> "garbage", fields |-> NoFields]}

NextScenario ==
    \/ \E m \in ScenarioMessages : Deliver(m, ScenarioLen)
    \/ ProcessMessage
    \/ FeedExhausted
    \/ FeedError
    \/ InterruptPolling
    \/ \E cut \in 0..3 : InterruptBody(cut)
    \/ Close

SpecScenario == InitScenario /\ [][NextScenario]_vars

\* The settings source is rewritten while the consumer runs.  Nothing reads it
\* again: load_dotenv() ran at import (line 35) and the getters read os.environ
DotenvEdited(e) ==
    /\ pc \in {"poll", "body"}
    /\ dotenv # e
    /\ dotenv' = e
    /\ UNCHANGED <<env, stallCount, window_size, rolling_window, consumer, pc, message,
                   nDelivered, nProcessed, accepted, alertEv, stallEv, errLog, endCause,
                   closeCount>>

EditedSources ==
    {[HEART_ROLLING_WINDOW_SIZE |-> 1, HEART_STALL_THRESHOLD_BPM |-> 1,
      HEART_RATE_THRESHOLD_HIGH |-> 0, HEART_RATE_THRESHOLD_LOW |-> 0],
     [HEART_ROLLING_WINDOW_SIZE |-> 2, HEART_STALL_THRESHOLD_BPM |-> 0,
      HEART_RATE_THRESHOLD_HIGH |-> 3, HEART_RATE_THRESHOLD_LOW |-> 2]}

ConfigMessages ==
    {Reading(x) : x \in HRValues} \cup {[syntax |-> "garbage", fields |-> NoFields]}

NextConfig ==
    \/ \E m \in ConfigMessages : Deliver(m, MaxMsgs)
    \/ ProcessMessage
    \/ FeedExhausted
    \/ FeedError
    \/ InterruptPolling
    \/ \E cut \in 0..3 : InterruptBody(cut)
    \/ Close
    \/ \E e \in EditedSources : DotenvEdited(e)

SpecConfig == Init /\ [][NextConfig]_vars

\* A feed with faulty evaluations: readings, a reading whose heart_rate is a
\* huge integer literal, a JSON array, and an object whose heart_rate is a string
EdgeMessages ==
    {Reading(x) : x \in HRValues \cup {HugeInt}}
    \cup {[syntax |-> "array", fields |-> NoFields],
          [syntax |-> "object", fields |-> [k \in Keys |-> JString]]}

NextEdge ==
    \/ \E m \in EdgeMessages : Deliver(m, MaxMsgs)
    \/ ProcessMessage
    \/ FeedExhausted
    \/ FeedError
    \/ InterruptPolling
    \/ \E cut \in 0..3 : InterruptBody(cut)
    \/ Close

SpecEdge == Init /\ [][NextEdge]_vars

\* Once the try statement is left, the finally clause runs: consumer.close()
\* is the next statement main executes
FairSpec == InitScenario /\ [][NextScenario]_vars /\ WF_vars(Close)

(***************************************************************************)
(* Properties.                                                             *)
(***************************************************************************)
\* The last call of process_message ran to its return on a well-formed reading
AfterAccepted == pc = "poll" /\ nProcessed > 0 /\ IsReading(message)

LastValue == ReadingValue(message)

Min2(a, b) == IF a < b THEN a ELSE b

LastN(s, n) == SubSeq(s, Len(s) - Min2(n, Len(s)) + 1, Len(s))

RangeWithin(w, t) == \A i \in DOMAIN w : \A j \in DOMAIN w : w[i] - w[j] <= t

\* C1: whatever messages are processed, the window never holds more than
\* window_size readings; once it holds window_size it holds window_size after
\* every later step, and a well-formed reading processed on a full window
\* drops exactly the oldest element and appends the new one.
C1_WindowCapacity ==
    /\ [](Len(rolling_window) <= window_size)
    /\ [][/\ Len(rolling_window) = window_size => Len(rolling_window') = window_size
          /\ (/\ pc = "body" /\ pc' = "poll" /\ IsReading(message)
              /\ Len(rolling_window) = window_size)
             => rolling_window' = Append(Tail(rolling_window), ReadingValue(message))]_vars

C1_Witness ==
    /\ pc = "poll"
    /\ Len(rolling_window) = window_size
    /\ Len(accepted) > window_size
    /\ nProcessed > Len(accepted)

\* C2: the window holds exactly the last min(window_size, k) of the k readings
\* accepted so far, in delivery order (dropped messages leave no trace); after
\* window_size + 1 readings it holds all but the first.
C2_FifoEviction ==
    /\ rolling_window = LastN(accepted, window_size)
    /\ Len(accepted) = window_size + 1 => rolling_window = Tail(accepted)

C2_Witness ==
    /\ pc = "poll"
    /\ window_size >= 2
    /\ Len(accepted) = window_size + 1
    /\ accepted[1] # accepted[2]
    /\ rolling_window[1] # rolling_window[2]
    /\ nProcessed > Len(accepted)

\* The malformed inputs of C3: text that is not JSON, or an object whose
\* heart_rate or timestamp is absent or null
MalformedInput(m) ==
    \/ m.syntax = "garbage"
    \/ /\ m.syntax = "object"
       /\ \/ "heart_rate" \notin DOMAIN m.fields
          \/ "timestamp" \notin DOMAIN m.fields
          \/ m.fields["heart_rate"] = JNull
          \/ m.fields["timestamp"] = JNull

\* C3: a step of the loop body on a malformed input leaves the rolling window
\* as it was, and the call of process_message on it returns to the loop (no
\* exception leaves the call).
C3_MalformedResilience ==
    [][(pc = "body" /\ MalformedInput(message))
       => /\ rolling_window' = rolling_window
          /\ endCause' # "interrupt"
             => (pc' = "poll" /\ endCause' = "none" /\ nProcessed' = nProcessed + 1)]_vars

C3_Witness ==
    /\ pc = "poll"
    /\ nProcessed > 0
    /\ message.syntax = "object"
    /\ DOMAIN message.fields = {"heart_rate"}
    /\ message.fields["heart_rate"].t = "number"
    /\ errLog = "invalid"
    /\ Len(rolling_window) > 0

\* C4: on a full window a stall is reported exactly when max - min is at most
\* the stall threshold: both for the stall event of an accepted reading and
\* for detect_stall on every full window reached.
C4_StallBoundary ==
    Len(rolling_window) = window_size
    => /\ detect_stall(rolling_window) <=> RangeWithin(rolling_window, get_stall_threshold)
       /\ AfterAccepted => (stallEv <=> RangeWithin(rolling_window, get_stall_threshold))

C4_Witness ==
    /\ AfterAccepted
    /\ Len(rolling_window) = window_size
    /\ get_stall_threshold >= 1
    /\ SeqMax(rolling_window) - SeqMin(rolling_window) = get_stall_threshold
    /\ stallEv

\* C5: a window holding fewer than window_size readings is never reported as
\* stalled, and no stall event is logged before window_size readings have
\* been accepted.
C5_InsufficientData ==
    /\ Len(rolling_window) < window_size => ~detect_stall(rolling_window)
    /\ stallEv => Len(accepted) >= window_size

C5_Witness ==
    /\ AfterAccepted
    /\ Len(rolling_window) >= 1
    /\ Len(rolling_window) = window_size - 1
    /\ RangeWithin(rolling_window, 0)
    /\ nProcessed > Len(accepted)
    /\ ~stallEv

Classified(level, value, high, low) ==
    /\ level \in {"NONE", "HIGH", "LOW"}
    /\ level = "HIGH" <=> value > high
    /\ level = "LOW" <=> value < low
    /\ level = "NONE" <=> (low <= value /\ value <= high)

\* C6: with low <= high the alert is HIGH iff value > high, LOW iff
\* value < low and NONE iff low <= value <= high: for the warning logged on an
\* accepted reading and for alert_on_heart_rate_anomaly on every value.
C6_AlertClassification ==
    get_heart_rate_threshold_low <= get_heart_rate_threshold_high
    => /\ \A x \in HRValues :
            Classified(alert_on_heart_rate_anomaly(x), x,
                       get_heart_rate_threshold_high, get_heart_rate_threshold_low)
       /\ AfterAccepted
          => Classified(alertEv, LastValue,
                        get_heart_rate_threshold_high, get_heart_rate_threshold_low)

C6_Witness ==
    /\ AfterAccepted
    /\ get_heart_rate_threshold_low < get_heart_rate_threshold_high
    /\ LastValue = get_heart_rate_threshold_high
    /\ alertEv = "NONE"

\* C7 as stated: whatever the thresholds, an accepted reading below the low
\* threshold is logged as a LOW alert.
C7_LowIndependent ==
    (AfterAccepted /\ LastValue < get_heart_rate_threshold_low) => alertEv = "LOW"

\* C7 amended: the low check is the elif of the high check.  A reading below
\* the low threshold is logged LOW when it is not above the high threshold,
\* and HIGH when it is (possible only with low > high).
C7_LowUnlessHigh ==
    /\ \A x \in HRValues :
          x < get_heart_rate_threshold_low
          => alert_on_heart_rate_anomaly(x)
             = IF x > get_heart_rate_threshold_high THEN "HIGH" ELSE "LOW"
    /\ (AfterAccepted /\ LastValue < get_heart_rate_threshold_low)
       => alertEv = IF LastValue > get_heart_rate_threshold_high THEN "HIGH" ELSE "LOW"

C7_Witness ==
    /\ AfterAccepted
    /\ get_heart_rate_threshold_low > get_heart_rate_threshold_high
    /\ LastValue < get_heart_rate_threshold_low
    /\ LastValue > get_heart_rate_threshold_high
    /\ alertEv = "HIGH"

ScenarioReadings == <<70, 71, 72, 70, 71>>

\* C8: under the default settings (window 5, stall threshold 5, high 120,
\* low 40), the readings 70, 71, 72, 70, 71 from an empty window log no alert,
\* no stall for the first four and a stall on the fifth; 130 next logs a HIGH
\* alert, leaves the window <<71, 72, 70, 71, 130>> (range 60) and logs no stall.
C8_EndToEnd ==
    AfterAccepted
    => /\ (Len(accepted) <= 5 /\ accepted = SubSeq(ScenarioReadings, 1, Len(accepted)))
          => (alertEv = "NONE" /\ (stallEv <=> Len(accepted) = 5))
       /\ accepted = Append(ScenarioReadings, 130)
          => /\ alertEv = "HIGH"
             /\ rolling_window = <<71, 72, 70, 71, 130>>
             /\ SeqMax(rolling_window) - SeqMin(rolling_window) = 60
             /\ ~stallEv

C8_Witness ==
    /\ AfterAccepted
    /\ accepted = Append(ScenarioReadings, 130)
    /\ nProcessed = 6

\* C9 as stated: every message delivered before the loop ends has been passed
\* to process_message.
C9_AllDeliveredProcessed ==
    pc \in {"poll", "finally", "done"} => nProcessed = nDelivered

\* C9 amended: messages are passed to process_message one at a time in
\* delivery order (the call passes the message delivered last and at most one
\* message is in flight); every delivered message has been passed whenever the
\* loop waits for the next one and when it ends by exhaustion or feed failure,
\* and only the one message in flight when an interrupt arrives may be left
\* unpassed.  A call that is not interrupted returns to the loop whatever the
\* message, and the loop ends only by exhaustion, feed failure (raised by the
\* iterator, never by the body) or interrupt.
C9_LoopSurvivesMessages ==
    /\ [](nProcessed <= nDelivered /\ nDelivered - nProcessed <= 1)
    /\ [](pc = "poll" => nProcessed = nDelivered)
    /\ [](endCause \in {"exhausted", "feed_error"} => nProcessed = nDelivered)
    /\ [](nProcessed < nDelivered => (pc = "body" \/ endCause = "interrupt"))
    /\ [][(pc = "body" /\ endCause' # "interrupt")
          => (pc' = "poll" /\ endCause' = "none" /\ nProcessed' = nProcessed + 1)]_vars
    /\ [][(pc # "finally" /\ pc' = "finally")
          => /\ endCause' \in {"exhausted", "feed_error", "interrupt"}
             /\ endCause' \in {"exhausted", "feed_error"} => pc = "poll"]_vars

C9_Witness ==
    /\ AfterAccepted
    /\ nProcessed = nDelivered
    /\ Len(accepted) >= 2
    /\ nProcessed - Len(accepted) >= 2

\* C10: however the loop ends, the consumer is eventually closed; it is closed
\* exactly once, and once it is closed no message is delivered or processed.
C10_ConsumerClosed ==
    /\ (endCause # "none") ~> (consumer = "closed")
    /\ [](closeCount <= 1)
    /\ [](pc = "done" => (consumer = "closed" /\ closeCount = 1))
    /\ [][consumer = "closed"
          => /\ consumer' = "closed"
             /\ nProcessed' = nProcessed
             /\ nDelivered' = nDelivered
             /\ rolling_window' = rolling_window]_vars

C10_Witness ==
    /\ pc = "done"
    /\ consumer = "closed"
    /\ closeCount = 1
    /\ endCause = "interrupt"
    /\ nProcessed >= 1

\* C11: once an interrupt has been observed nothing more is delivered,
\* processed or logged and main goes to the finally clause; and the interrupt
\* leaves no message partially processed: the step that observes it has pushed
\* nothing and, when it interrupted a call of process_message, logged no alert.
C11_NoPartialMessage ==
    /\ [][endCause = "interrupt"
          => /\ nDelivered' = nDelivered
             /\ nProcessed' = nProcessed
             /\ rolling_window' = rolling_window
             /\ alertEv' = alertEv
             /\ stallEv' = stallEv
             /\ pc' \in {"finally", "done"}]_vars
    /\ [][(endCause = "none" /\ endCause' = "interrupt")
          => /\ pc' = "finally"
             /\ rolling_window' = rolling_window
             /\ accepted' = accepted
             /\ nProcessed' > nProcessed => alertEv' = "NONE"]_vars

ClassifyWith(value, high, low) ==
    IF value > high THEN "HIGH" ELSE IF value < low THEN "LOW" ELSE "NONE"

\* C12: the settings the getters give never change after startup, whatever
\* happens to the external source: os.environ and main's window_size keep
\* their startup values, the size detect_stall compares against equals the
\* deque's capacity, and the alert and stall decisions on every accepted
\* reading are the ones the startup values give.
C12_ConfigFixed ==
    /\ [][env' = env /\ window_size' = window_size]_vars
    /\ [](get_rolling_window_size = window_size)
    /\ [](AfterAccepted
          => /\ alertEv = ClassifyWith(LastValue, env.HEART_RATE_THRESHOLD_HIGH,
                                       env.HEART_RATE_THRESHOLD_LOW)
             /\ stallEv <=> (/\ Len(rolling_window) = env.HEART_ROLLING_WINDOW_SIZE
                             /\ RangeWithin(rolling_window, env.HEART_STALL_THRESHOLD_BPM)))

C12_Witness ==
    /\ AfterAccepted
    /\ dotenv # env
    /\ alertEv # ClassifyWith(LastValue, dotenv.HEART_RATE_THRESHOLD_HIGH,
                              dotenv.HEART_RATE_THRESHOLD_LOW)
    /\ stallEv
    /\ Len(rolling_window) # dotenv.HEART_ROLLING_WINDOW_SIZE

\* Well-formed JSON whose evaluation fails: the top-level value is not an
\* object, or heart_rate is present but is not a number
EvaluationFails(m) ==
    \/ m.syntax = "array"
    \/ /\ m.syntax = "object"
       /\ Keys \subseteq DOMAIN m.fields
       /\ m.fields["heart_rate"].t = "string"
       /\ m.fields["timestamp"].t = "string"

\* C13: a call of process_message on well-formed JSON whose evaluation fails
\* logs an error, returns to the loop and leaves the window unchanged; and
\* every call that logs an error leaves the window as it was before the call.
C13_ErrorLeavesWindow ==
    [][(pc = "body" /\ nProcessed' = nProcessed + 1 /\ endCause' # "interrupt")
       => /\ EvaluationFails(message)
             => (errLog' = "exception" /\ pc' = "poll"
                 /\ rolling_window' = rolling_window)
          /\ errLog' # "none" => rolling_window' = rolling_window]_vars

\* The last call of process_message ran to its return
AfterCall == pc = "poll" /\ nProcessed > 0

\* C14: the warning a call logs is the HIGH or LOW classification of the value
\* when the message decoded and validated as a reading, and none otherwise:
\* it depends on the value and the thresholds alone, and a dropped message
\* logs no alert even when its heart_rate is outside the thresholds.
C14_AlertIffAccepted ==
    AfterCall
    => alertEv = IF IsReading(message)
                 THEN ClassifyWith(LastValue, get_heart_rate_threshold_high,
                                   get_heart_rate_threshold_low)
                 ELSE "NONE"

C14_Witness ==
    /\ AfterCall
    /\ message.syntax = "object"
    /\ DOMAIN message.fields = {"heart_rate"}
    /\ message.fields["heart_rate"].t = "number"
    /\ message.fields["heart_rate"].v > get_heart_rate_threshold_high
    /\ alertEv = "NONE"
    /\ Len(rolling_window) = window_size

FullAndFlat(w) ==
    Len(w) = window_size /\ RangeWithin(w, get_stall_threshold)

\* C15: within a call the alert comes before the push and the push before the
\* stall evaluation: a step of the body that has pushed the value has logged
\* its alert, a stall is logged only with the value pushed, and the stall is
\* evaluated on the window that already holds the value.
C15_StepOrder ==
    [][(pc = "body" /\ nProcessed' = nProcessed + 1)
       => /\ accepted' # accepted
             => /\ alertEv' = ClassifyWith(LastValue, get_heart_rate_threshold_high,
                                           get_heart_rate_threshold_low)
                /\ rolling_window'[Len(rolling_window')] = LastValue
          /\ stallEv'
             => /\ accepted' = Append(accepted, LastValue)
                /\ rolling_window'[Len(rolling_window')] = LastValue
                /\ Len(rolling_window') = window_size
                /\ RangeWithin(rolling_window', get_stall_threshold)
          /\ (pc' = "poll" /\ IsReading(message))
             => (stallEv' <=> (/\ Len(rolling_window') = window_size
                               /\ RangeWithin(rolling_window', get_stall_threshold)))]_vars

C15_Witness ==
    /\ AfterAccepted
    /\ window_size >= 2
    /\ Len(accepted) = window_size + 1
    /\ stallCount = 1
    /\ ~stallEv

\* The accepted readings after whose push the window was full and flat
StalledPushes ==
    {k \in 1..Len(accepted) :
        /\ k >= window_size
        /\ RangeWithin(SubSeq(accepted, k - window_size + 1, k), get_stall_threshold)}

\* C16: a stall event is logged for every accepted reading after whose push
\* the window is full with max - min within the threshold, so the number of
\* stall events equals the number of such readings; a dropped message logs no
\* stall event.
C16_LevelTriggered ==
    /\ endCause # "interrupt" => stallCount = Cardinality(StalledPushes)
    /\ (AfterCall /\ ~IsReading(message)) => ~stallEv
    /\ AfterAccepted => (stallEv <=> Len(accepted) \in StalledPushes)

C16_Witness ==
    /\ AfterAccepted
    /\ window_size >= 2
    /\ stallEv
    /\ stallCount >= 2
    /\ nProcessed > Len(accepted)

\* C17: a reading outside the thresholds is alerted on, pushed and evaluated
\* for a stall like any other: the alert does not prevent the push or the
\* stall event.
C17_AlertAndStallIndependent ==
    (AfterAccepted /\ ClassifyWith(LastValue, get_heart_rate_threshold_high,
                                   get_heart_rate_threshold_low) # "NONE")
    => /\ alertEv # "NONE"
       /\ Len(rolling_window) >= 1
       /\ rolling_window[Len(rolling_window)] = LastValue
       /\ rolling_window = LastN(accepted, window_size)
       /\ stallEv <=> FullAndFlat(rolling_window)

C17_Witness ==
    /\ AfterAccepted
    /\ window_size >= 2
    /\ alertEv = "HIGH"
    /\ stallEv

====
